---- MODULE Spec2Model ----
(***************************************************************************)
(* A model of coursera/coursera_dl.py: the resource selector, the path     *)
(* namer, the completion estimator, the subtitle resolver, and the         *)
(* download loop formed by main, download_on_demand_class and              *)
(* download_lectures over a file system with a working directory.          *)
(*                                                                         *)
(* Strings are TLC strings; a path is a record [abs, comps] of its         *)
(* components, resolved against the working directory when it is relative. *)
(* A resource-format key ("mp4", "en.srt") is the sequence of its          *)
(* dot-separated parts.                                                    *)
(***************************************************************************)
EXTENDS Integers, Sequences, FiniteSets, TLC

(***************************************************************************)
(* Bounds of the model.                                                    *)
(***************************************************************************)
\* invocations of main that one behaviour contains
MaxRuns == 2
\* length of the list of requested class names
MaxClasses == 2
\* number of configured hooks
MaxHooks == 2
\* failures of the collaborators (a raised exception, a download that reports
\* failure) in one behaviour
MaxFailures == 1
\* options given on the command line besides the class names
MaxOptions == 2
\* size of the format sets given to find_resources_to_get in SpecSelector
MaxFormats == 2
\* number of resource keys of a lecture in SpecSelector
MaxKeys == 2
\* number of languages a subtitle document offers in SpecResolver
MaxLangs == 2
\* seconds around the thresholds of is_course_complete in SpecEstimator
MaxSkew == 8
\* number of modules of a syllabus document in SpecParser
MaxModules == 3

(***************************************************************************)
(* Program constants.                                                      *)
(***************************************************************************)
\* datetime.timedelta(days=30)
DAYS == 30
\* the value last_update starts with: no activity observed
NoUpdate == 0 - 1

Max2(a, b) == IF a >= b THEN a ELSE b

Last(s) == s[Len(s)]

Range(q) == {q[i] : i \in 1..Len(q)}

(***************************************************************************)
(* Formatting: '%02d' % n, str.upper on the names the model uses, and the  *)
(* "." join that turns the parts of a key back into the key.               *)
(***************************************************************************)
Pad2(n) == IF n < 10 THEN "0" \o ToString(n) ELSE ToString(n)

UpperTable ==
    [s \in {"m1", "m2", "basics"} |->
        CASE s = "m1" -> "M1" [] s = "m2" -> "M2" [] s = "basics" -> "BASICS"]

\* upper() of '%02d_%s' % (n, slug): digits and "_" are unchanged by upper()
UpperNumbered(n, slug) == Pad2(n) \o "_" \o UpperTable[slug]

RECURSIVE JoinDot(_)
JoinDot(parts) ==
    IF Len(parts) = 1 THEN parts[1]
    ELSE parts[1] \o "." \o JoinDot(Tail(parts))

(***************************************************************************)
(* total_seconds and is_course_complete.                                   *)
(***************************************************************************)
\* (td.microseconds + (td.seconds + td.days * 24 * 3600) * 10 ** 6) // 10 ** 6,
\* written as S + us // 10 ** 6 with S = td.seconds + td.days * 24 * 3600: the
\* two are equal for all integers, and S * 10 ** 6 is beyond TLC's integers
TotalSeconds(days, seconds, microseconds) ==
    (seconds + days * 24 * 3600) + (microseconds \div 1000000)

IsCourseCompleteBroken(last_update, now) ==
    last_update >= 0 /\ now - last_update >= TotalSeconds(DAYS, 0, 0)

IsCourseComplete(last_update, now) ==
    LET rv0 == FALSE
        delta == now - last_update
        max_delta == TotalSeconds(DAYS, 0, 0)
    IN  IF last_update >= 0
        THEN (IF delta > max_delta THEN TRUE ELSE rv0)
        ELSE rv0

(***************************************************************************)
(* format_section, format_resource, format_combine_number_resource.        *)
(* class_upper is class_name.upper().                                      *)
(***************************************************************************)
FormatSection(num, section, class_upper, verbose_dirs) ==
    LET sec == Pad2(num) \o "_" \o section
    IN  IF verbose_dirs THEN class_upper \o "_" \o sec ELSE sec

FormatResourceUnpadded(num, name, title, fmt) ==
    LET t == IF title # "" THEN "_" \o title ELSE title
    IN  ToString(num) \o "_" \o name \o t \o "." \o fmt

FormatResource(num, name, title, fmt) ==
    LET t == IF title # "" THEN "_" \o title ELSE title
    IN  Pad2(num) \o "_" \o name \o t \o "." \o fmt

FormatCombineNumberResourceNoTitle(secnum, lecnum, lecname, title, fmt) ==
    Pad2(secnum) \o "_" \o Pad2(lecnum) \o "_" \o lecname \o "." \o fmt

FormatCombineNumberResource(secnum, lecnum, lecname, title, fmt) ==
    LET t == IF title # "" THEN "_" \o title ELSE title
    IN  Pad2(secnum) \o "_" \o Pad2(lecnum) \o "_" \o lecname \o t \o "." \o fmt

\* download_lectures, "for fmt, url, title in resources_to_get": the file name
\* of target <<fmt, url, title>>, before it is joined to sec
NameTarget(combined_section_lectures_nums, secnum, lecnum, lecname, target) ==
    IF combined_section_lectures_nums
    THEN FormatCombineNumberResource(secnum, lecnum, lecname, target[3], target[1])
    ELSE FormatResource(lecnum, lecname, target[3], target[1])

(***************************************************************************)
(* re.search(pattern, text) for the patterns and texts of the model: the   *)
(* set of texts of the model in which the pattern is found.                *)
(***************************************************************************)
Found(pattern) ==
    CASE pattern = "week0[1-2]" -> {"week01", "week02"}
      [] pattern = "intro"      -> {"intro"}
      [] pattern = "^Slides"    -> {"Slides", "Slides 2"}
      [] OTHER                  -> {}

ReSearch(pattern, text) == text \in Found(pattern)

FilteredOutNever(filter, text) == FALSE

\* "if filter and not re.search(filter, text): continue"; None and '' are falsy
FilteredOut(filter, text) == filter # "" /\ ~ReSearch(filter, text)

(***************************************************************************)
(* find_resources_to_get.  lecture is the ordered mapping key -> resources *)
(* as a sequence of <<key, resources>>, a resource being <<url, title>>;   *)
(* the result is the sequence of <<fmt0, url, title>>.                     *)
(***************************************************************************)
\* fmt after "if '.' in fmt: fmt = fmt.split('.')[1]"
Extension(key) == IF Len(key) > 1 THEN key[2] ELSE key[1]

FormatAcceptedNoIgnore(fmt, file_formats, ignored_formats) ==
    fmt \in file_formats \/ "all" \in file_formats

FormatAccepted(fmt, file_formats, ignored_formats) ==
    IF fmt \in ignored_formats THEN FALSE
    ELSE fmt \in file_formats \/ "all" \in file_formats

RECURSIVE KeepResources(_, _, _)
KeepResources(fmt0, resources, resource_filter) ==
    IF resources = <<>> THEN <<>>
    ELSE LET r == Head(resources)
             rest == KeepResources(fmt0, Tail(resources), resource_filter)
         IN  IF resource_filter # "" /\ r[2] # "" /\ ~ReSearch(resource_filter, r[2])
             THEN rest
             ELSE <<<<fmt0, r[1], r[2]>>>> \o rest

RECURSIVE FindResourcesToGet(_, _, _, _)
FindResourcesToGet(lecture, file_formats, resource_filter, ignored_formats) ==
    IF lecture = <<>> THEN <<>>
    ELSE LET key == Head(lecture)[1]
             resources == Head(lecture)[2]
             rest == FindResourcesToGet(Tail(lecture), file_formats,
                                        resource_filter, ignored_formats)
         IN  IF FormatAccepted(Extension(key), file_formats, ignored_formats)
             THEN KeepResources(JoinDot(key), resources, resource_filter) \o rest
             ELSE rest

(***************************************************************************)
(* get_on_demand_video_url.  dom is the parsed video document: sources, a  *)
(* sequence of [resolution, url], and under subtitles and subtitlesTxt     *)
(* either <<>> (the node is missing) or <<m>>, m being the ordered mapping *)
(* language -> url as a sequence of <<language, url>>.  A url is           *)
(* [abs, u]: whether it is absolute, and its text.  The result is the      *)
(* exception raised, video_content as a sequence of <<key, url>> in        *)
(* insertion order, and the warnings logged.                               *)
(***************************************************************************)
\* utils.make_coursera_absolute_url
MakeCourseraAbsoluteUrl(url) == [url EXCEPT !.abs = TRUE]

\* the order of str on the resolution labels of the model
ResolutionRank(r) == CASE r = "360p" -> 1 [] r = "540p" -> 2 [] r = "720p" -> 3

RECURSIVE InsertByResolution(_, _)
InsertByResolution(sorted, x) ==
    IF sorted = <<>> THEN <<x>>
    ELSE IF ResolutionRank(x.resolution) < ResolutionRank(Head(sorted).resolution)
         THEN <<x>> \o sorted
         ELSE <<Head(sorted)>> \o InsertByResolution(Tail(sorted), x)

\* sources.sort(key=lambda src: src['resolution'])
RECURSIVE SortByResolution(_)
SortByResolution(sources) ==
    IF sources = <<>> THEN <<>>
    ELSE InsertByResolution(SortByResolution(SubSeq(sources, 1, Len(sources) - 1)),
                            Last(sources))

Reverse(q) == [i \in 1..Len(q) |-> q[Len(q) + 1 - i]]

\* d[key] = value on an ordered mapping
RECURSIVE Put(_, _, _)
Put(d, key, value) ==
    IF d = <<>> THEN <<<<key, value>>>>
    ELSE IF Head(d)[1] = key THEN <<<<key, value>>>> \o Tail(d)
         ELSE <<Head(d)>> \o Put(Tail(d), key, value)

Keys(d) == {d[i][1] : i \in 1..Len(d)}

\* d.get(key): <<>> for None
Get(d, key) == IF key \in Keys(d) THEN <<(CHOOSE e \in Range(d) : e[1] = key)[2]>> ELSE <<>>

RECURSIVE PutAllLanguages(_, _, _)
PutAllLanguages(content, subtitles, extension) ==
    IF subtitles = <<>> THEN content
    ELSE PutAllLanguages(Put(content, <<Head(subtitles)[1], extension>>,
                             MakeCourseraAbsoluteUrl(Head(subtitles)[2])),
                         Tail(subtitles), extension)

\* one pass of "for (subtitle_node, subtitle_extension, subtitle_description)":
\* st is [language, content, warnings]
SubtitlePass(st, node, extension, description) ==
    IF node = <<>> THEN st
    ELSE IF st.language = "all"
         THEN [st EXCEPT !.content = PutAllLanguages(st.content, node[1], extension)]
         ELSE LET missing == st.language # "en" /\ st.language \notin Keys(node[1])
                  \* "subtitle_language = 'en'" follows the if, at its level
                  language == "en"
                  subtitle_url == Get(node[1], language)
              IN  [language |-> language,
                   content |-> IF subtitle_url # <<>>
                               THEN Put(st.content, <<language, extension>>,
                                        MakeCourseraAbsoluteUrl(subtitle_url[1]))
                               ELSE st.content,
                   warnings |-> IF missing
                                THEN Append(st.warnings, <<description, st.language>>)
                                ELSE st.warnings]

GetOnDemandVideoUrl(dom, subtitle_language, resolution) ==
    LET sorted == Reverse(SortByResolution(dom.sources))
        filtered_sources == SelectSeq(sorted, LAMBDA src : src.resolution = resolution)
        sources == IF Len(filtered_sources) = 0 THEN sorted ELSE filtered_sources
        warned == IF Len(filtered_sources) = 0 THEN <<<<"resolution", resolution>>>>
                  ELSE <<>>
    IN  IF sources = <<>>
        THEN [raised |-> "IndexError", video_content |-> <<>>, warnings |-> warned]
        ELSE LET st0 == [language |-> subtitle_language,
                         content |-> <<<<<<"mp4">>, sources[1].url>>>>,
                         warnings |-> warned]
                 st1 == SubtitlePass(st0, dom.subtitles, "srt", "subtitle")
                 st2 == SubtitlePass(st1, dom.subtitlesTxt, "txt", "transcript")
             IN  [raised |-> "", video_content |-> st2.content,
                  warnings |-> st2.warnings]

(***************************************************************************)
(* parse_on_demand_syllabus.  The syllabus document is                     *)
(* dom['courseMaterial']['elements']: a sequence of modules                *)
(* [slug, elements], whose elements are sections [slug, elements], whose   *)
(* elements are items [slug, typeName, videoId].  VideoDocument(videoId)   *)
(* is the document get_page returns for the video.  The result is the      *)
(* exception raised and the modules: <<module_slug, sections>>, a section  *)
(* being <<section_slug, lectures>> and a lecture <<lecture_slug,          *)
(* resources>> with resources the ordered mapping key -> <<<<url, ''>>>>.  *)
(***************************************************************************)
VideoDocument(video_id) ==
    CASE video_id = "v1" ->
           [sources |-> <<[resolution |-> "540p", url |-> "v1-540"]>>,
            subtitles |-> << << <<"en", [abs |-> TRUE, u |-> "v1-srt-en"]>>,
                                <<"fr", [abs |-> FALSE, u |-> "v1-srt-fr"]>> >> >>,
            subtitlesTxt |-> <<>>]
      [] video_id = "v2" ->
           [sources |-> <<[resolution |-> "360p", url |-> "v2-360"],
                          [resolution |-> "720p", url |-> "v2-720"]>>,
            subtitles |-> <<>>,
            subtitlesTxt |-> << << <<"en", [abs |-> TRUE, u |-> "v2-txt-en"]>> >> >>]
      [] OTHER ->
           [sources |-> <<>>, subtitles |-> <<>>, subtitlesTxt |-> <<>>]

\* "for key, value in video_content.items(): lecture_video_content[key] = [(value, '')]"
LectureVideoContent(video_content) ==
    [i \in 1..Len(video_content) |-> <<video_content[i][1], <<<<video_content[i][2], "">>>>>>]

\* the body of "for lecture in json_lectures": st is [raised, lectures]
ParseLecture(st, lecture, subtitle_language, video_resolution) ==
    IF st.raised # "" THEN st
    ELSE IF lecture.typeName = "lecture"
         THEN LET got == GetOnDemandVideoUrl(VideoDocument(lecture.videoId),
                                             subtitle_language, video_resolution)
                  lecture_video_content == LectureVideoContent(got.video_content)
              IN  IF got.raised # "" THEN [st EXCEPT !.raised = got.raised]
                  ELSE IF lecture_video_content # <<>>
                       THEN [st EXCEPT !.lectures =
                                Append(@, <<lecture.slug, lecture_video_content>>)]
                       ELSE st
         ELSE st

RECURSIVE ParseLectures(_, _, _, _)
ParseLectures(st, json_lectures, subtitle_language, video_resolution) ==
    IF json_lectures = <<>> THEN st
    ELSE ParseLectures(ParseLecture(st, Head(json_lectures), subtitle_language,
                                    video_resolution),
                       Tail(json_lectures), subtitle_language, video_resolution)

AppendSectionAlways(sections, section_slug, lectures) ==
    Append(sections, <<section_slug, lectures>>)

\* "if lectures: sections.append((section_slug, lectures))"
AppendSection(sections, section_slug, lectures) ==
    IF lectures # <<>> THEN Append(sections, <<section_slug, lectures>>) ELSE sections

\* the body of "for section in json_sections": st is [raised, sections]
ParseSection(st, section, subtitle_language, video_resolution) ==
    IF st.raised # "" THEN st
    ELSE LET parsed == ParseLectures([raised |-> "", lectures |-> <<>>], section.elements,
                                     subtitle_language, video_resolution)
         IN  IF parsed.raised # "" THEN [st EXCEPT !.raised = parsed.raised]
             ELSE [st EXCEPT !.sections = AppendSection(@, section.slug, parsed.lectures)]

RECURSIVE ParseSections(_, _, _, _)
ParseSections(st, json_sections, subtitle_language, video_resolution) ==
    IF json_sections = <<>> THEN st
    ELSE ParseSections(ParseSection(st, Head(json_sections), subtitle_language,
                                    video_resolution),
                       Tail(json_sections), subtitle_language, video_resolution)

\* "if sections: modules.append((module_slug, sections))"
AppendModule(modules_, module_slug, sections) ==
    IF sections # <<>> THEN Append(modules_, <<module_slug, sections>>) ELSE modules_

\* the body of "for module in json_modules": st is [raised, modules]
ParseModule(st, module, subtitle_language, video_resolution) ==
    IF st.raised # "" THEN st
    ELSE LET parsed == ParseSections([raised |-> "", sections |-> <<>>], module.elements,
                                     subtitle_language, video_resolution)
         IN  IF parsed.raised # "" THEN [st EXCEPT !.raised = parsed.raised]
             ELSE [st EXCEPT !.modules = AppendModule(@, module.slug, parsed.sections)]

RECURSIVE ParseModules(_, _, _, _)
ParseModules(st, json_modules, subtitle_language, video_resolution) ==
    IF json_modules = <<>> THEN st
    ELSE ParseModules(ParseModule(st, Head(json_modules), subtitle_language,
                                  video_resolution),
                      Tail(json_modules), subtitle_language, video_resolution)

ParseOnDemandSyllabus(json_modules, reverse, subtitle_language, video_resolution) ==
    LET parsed == ParseModules([raised |-> "", modules |-> <<>>], json_modules,
                               subtitle_language, video_resolution)
    IN  IF parsed.raised # "" THEN [raised |-> parsed.raised, modules |-> <<>>]
        ELSE IF parsed.modules # <<>> /\ reverse
             THEN [raised |-> "", modules |-> Reverse(parsed.modules)]
             ELSE [raised |-> "", modules |-> parsed.modules]

(***************************************************************************)
(* Paths.  os.path.join of names that hold no separator appends a          *)
(* component; a relative path is resolved against the working directory.   *)
(***************************************************************************)
Join(p, name) == [p EXCEPT !.comps = @ \o <<name>>]

Resolve(p, wd) == IF p.abs THEN p.comps ELSE wd \o p.comps

Prefixes(comps) == {SubSeq(comps, 1, n) : n \in 0..Len(comps)}

\* utils.mkdir_p: create the directory and every missing ancestor
MkdirP(ds, comps) == ds \cup Prefixes(comps)

\* the directory the process is started in, and the absolute output directory
StartDir == <<"home">>
InitDirs == {<<>>, <<"home">>, <<"srv">>}

(***************************************************************************)
(* The courses the platform serves, as parse_on_demand_syllabus returns    *)
(* them: a sequence of <<module_slug, sections>>, a section being          *)
(* <<section_slug, lectures>> and a lecture <<lecture_slug, resources>>.   *)
(***************************************************************************)
Courses == {"ml", "algo", "empty"}

Syllabus(class_name) ==
    CASE class_name = "ml" ->
           << <<"m1", << <<"week01", << <<"intro", << <<<<"mp4">>, <<<<"u1", "">>>>>>,
                                                      <<<<"en", "srt">>, <<<<"u2", "">>>>>> >> >> >> >>,
                         <<"week03", << <<"outro", << <<<<"mp4">>, <<<<"u3", "">>>>>> >> >> >> >> >> >>,
              <<"m2", << <<"week02", << <<"notes", << <<<<"en", "txt">>, <<<<"u4", "">>>>>> >> >> >> >> >> >> >>
      [] class_name = "algo" ->
           << <<"basics", << <<"week01", << <<"intro", << <<<<"mp4">>, <<<<"u5", "">>>>>> >> >> >> >> >> >> >>
      [] OTHER -> <<>>

(***************************************************************************)
(* The options main reads (parse_args), drawn in Init.                     *)
(***************************************************************************)
\* --path: '' by default, which os.path.join leaves out, or an absolute directory
OutputPaths == {[abs |-> FALSE, comps |-> <<>>], [abs |-> TRUE, comps |-> <<"srv">>]}

RECURSIVE DistinctSeqs(_, _)
DistinctSeqs(S, n) ==
    IF n = 0 THEN {<<>>}
    ELSE LET shorter == DistinctSeqs(S, n - 1)
         IN  shorter \cup {Append(q, x) : q \in {r \in shorter : Len(r) = n - 1}, x \in S}

NoRepeat(q) == \A i, j \in 1..Len(q) : i # j => q[i] # q[j]

ClassLists == {q \in DistinctSeqs(Courses, MaxClasses) : q # <<>> /\ NoRepeat(q)}

HookLists == {SubSeq(<<"h1", "h2", "h3", "h4">>, 1, n) : n \in 0..MaxHooks}

(***************************************************************************)
(* What the collaborators answer.  login raises AuthenticationFailed or    *)
(* ClassNotFound, get_page raises HTTPError, json.loads and the lookups in *)
(* the documents raise ValueError or KeyError on a malformed document,     *)
(* mkdir_p and open raise OSError.                                          *)
(***************************************************************************)
CaughtByMainNarrow == {"HTTPError", "AuthenticationFailed"}

\* the except clauses of main
CaughtByMain == {"HTTPError", "ClassNotFound", "AuthenticationFailed"}

SetupErrors == {"HTTPError", "ClassNotFound", "AuthenticationFailed", "ValueError"}

VARIABLES
    args,               \* the parsed options
    run,                \* number of the running invocation of main
    now,                \* time.time()
    pc,                 \* where the program is
    ci,                 \* main: index of the class being processed
    modules,            \* download_on_demand_class: the parsed syllabus
    mi,                 \* download_on_demand_class: idx + 1
    completed,          \* download_on_demand_class: completed
    completed_classes,  \* main: completed_classes
    si,                 \* download_lectures: secnum + 1
    li,                 \* download_lectures: lecnum + 1
    ti,                 \* download_lectures: position in resources_to_get
    hi,                 \* download_lectures: position in hooks
    resources_to_get,   \* download_lectures: resources_to_get
    last_update,        \* download_lectures: last_update
    cwd,                \* the working directory of the process
    dirs,               \* the directories that exist
    files,              \* the files that exist: path |-> [mtime, content]
    hist,               \* what happened, for stating the properties
    call                \* a single call of a function: its arguments and its result

vars == <<call, args, run, now, pc, ci, modules, mi, completed, completed_classes,
          si, li, ti, hi, resources_to_get, last_update, cwd, dirs, files, hist>>

(***************************************************************************)
(* The values the running functions compute from their loop variables.     *)
(***************************************************************************)
ClassName == args.class_names[ci]

Module == modules[mi]

\* download_on_demand_class: module_name = '%02d_%s' % (idx + 1, module[0])
ModuleName == Pad2(mi) \o "_" \o Module[1]

Sections == Module[2]

Section == Sections[si]

Lectures == Section[2]

Lecture == Lectures[li]

\* sec = os.path.join(path, class_name, format_section(...)) for section s of
\* module m of the syllabus mods of class cn: download_lectures is called with
\* path = os.path.join(args.path, cn) and class_name = module_name
SecOf(cn, mods, m, s) ==
    Join(Join(Join(args.path, cn), Pad2(m) \o "_" \o mods[m][1]),
         FormatSection(s, mods[m][2][s][1], UpperNumbered(m, mods[m][1]),
                       args.verbose_dirs))

Sec == SecOf(ClassName, modules, mi, si)

LecFileName(target) ==
    NameTarget(args.combined_section_lectures_nums, si, li, Lecture[1], target)

ExistsDirsOnly(p) == Resolve(p, cwd) \in dirs

\* os.path.exists
Exists(p) == Resolve(p, cwd) \in dirs \/ Resolve(p, cwd) \in DOMAIN files

ShouldWriteNoResume(overwrite, exists, resume) == overwrite \/ ~exists

\* "if overwrite or not os.path.exists(lecfn) or resume"
ShouldWrite(overwrite, exists, resume) == overwrite \/ ~exists \/ resume

MainHandlesNarrow(e) == e \in CaughtByMainNarrow

\* whether an except clause of main catches the exception
MainHandles(e) == e \in CaughtByMain

(***************************************************************************)
(* The file tree without modification times.                               *)
(***************************************************************************)
Tree == [d |-> dirs, f |-> [p \in DOMAIN files |-> files[p].content]]

NoLast == [path |-> <<>>, existed |-> FALSE, wrote |-> FALSE, dl |-> "none",
           before |-> <<>>, update |-> NoUpdate]

NewHist ==
    [attempted |-> <<>>, outcome |-> <<>>, returned |-> <<>>, writes |-> 0,
     written |-> {}, made |-> {}, last |-> NoLast, activity |-> NoUpdate,
     skipped |-> {}, entered |-> {}, touched |-> {}, hookFailed |-> {},
     failures |-> 0, faulted |-> FALSE,
     swallowed |-> FALSE, prevReturned |-> FALSE, prevClean |-> FALSE, prevTree |-> <<>>]

B(flag) == IF flag THEN 1 ELSE 0

\* the number of options a command line needs to produce these values: every
\* option has the default parse_args gives it unless it is given
OptionCount(a) ==
    B(a.path.abs) + B(a.file_formats # {"all"}) + B(a.ignore_formats # {})
    + B(a.section_filter # "") + B(a.lecture_filter # "") + B(a.resource_filter # "")
    + B(a.verbose_dirs) + B(a.combined_section_lectures_nums) + B(a.overwrite)
    + B(a.resume) + B(a.skip_download) + B(a.playlist) + Len(a.hooks)

AllArgs ==
               [class_names : ClassLists,
                 path : OutputPaths,
                 file_formats : {{"all"}, {"mp4"}},
                 ignore_formats : {{}, {"srt"}},
                 section_filter : {"", "week0[1-2]"},
                 lecture_filter : {"", "intro"},
                 resource_filter : {""},
                 verbose_dirs : BOOLEAN,
                 combined_section_lectures_nums : BOOLEAN,
                 overwrite : BOOLEAN,
                 resume : BOOLEAN,
                 skip_download : BOOLEAN,
                 playlist : BOOLEAN,
                 hooks : HookLists]

Init ==
    /\ args \in {a \in AllArgs : OptionCount(a) <= MaxOptions}
    /\ run = 1
    /\ now = 2 * TotalSeconds(DAYS, 0, 0)
    /\ pc = "main"
    /\ ci = 0
    /\ modules = <<>>
    /\ mi = 0
    /\ completed = TRUE
    /\ completed_classes = <<>>
    /\ si = 0
    /\ li = 0
    /\ ti = 0
    /\ hi = 0
    /\ resources_to_get = <<>>
    /\ last_update = NoUpdate
    /\ cwd = StartDir
    /\ dirs = InitDirs
    /\ files = <<>>
    /\ hist = NewHist
    /\ call = <<>>

(***************************************************************************)
(* An exception raised while download_class runs reaches the try of main:  *)
(* a caught one is logged and the loop goes on with the next class name,   *)
(* any other ends the process.                                             *)
(***************************************************************************)
\* a collaborator may still fail
CanFail == hist.failures < MaxFailures

Failed(h) == [h EXCEPT !.failures = @ + 1, !.faulted = TRUE]

Raised(e, h) ==
    /\ pc' = IF MainHandles(e) THEN "main" ELSE "crashed"
    /\ hist' = [h EXCEPT !.outcome[Len(h.outcome)] = e]

(***************************************************************************)
(* main: the loop over args.class_names.                                   *)
(***************************************************************************)
\* download_class is called; login, get_on_demand_syllabus and
\* parse_on_demand_syllabus succeed
StartClass ==
    /\ pc = "main"
    /\ ci < Len(args.class_names)
    /\ ci' = ci + 1
    /\ modules' = Syllabus(args.class_names[ci + 1])
    /\ mi' = 0
    /\ completed' = TRUE
    /\ pc' = "class"
    /\ hist' = [hist EXCEPT !.attempted = Append(@, args.class_names[ci + 1]),
                            !.outcome = Append(@, "running"),
                            !.activity = NoUpdate]
    /\ UNCHANGED <<call, args, run, now, completed_classes, si, li, ti, hi,
                   resources_to_get, last_update, cwd, dirs, files>>

\* download_class is called; login, the syllabus request, a video request or
\* the parsing of a document raises
StartClassFails ==
    /\ pc = "main"
    /\ ci < Len(args.class_names)
    /\ ci' = ci + 1
    /\ CanFail
    /\ \E e \in SetupErrors :
          Raised(e, [Failed(hist) EXCEPT !.attempted = Append(@, args.class_names[ci + 1]),
                                 !.outcome = Append(@, "running"),
                                 !.activity = NoUpdate])
    /\ UNCHANGED <<call, args, run, now, modules, mi, completed, completed_classes, si, li,
                   ti, hi, resources_to_get, last_update, cwd, dirs, files>>

\* the loop is over
MainDone ==
    /\ pc = "main"
    /\ ci = Len(args.class_names)
    /\ pc' = "done"
    /\ UNCHANGED <<call, args, run, now, ci, modules, mi, completed, completed_classes, si,
                   li, ti, hi, resources_to_get, last_update, cwd, dirs, files, hist>>

(***************************************************************************)
(* download_on_demand_class: the loop over the modules.                    *)
(***************************************************************************)
BeginModule ==
    /\ pc = "class"
    /\ mi < Len(modules)
    /\ mi' = mi + 1
    /\ last_update' = NoUpdate
    /\ si' = 0
    /\ pc' = "section"
    /\ UNCHANGED <<call, args, run, now, ci, modules, completed, completed_classes, li, ti,
                   hi, resources_to_get, cwd, dirs, files, hist>>

\* return completed; main appends the class name when it is True
FinishClass ==
    /\ pc = "class"
    /\ mi = Len(modules)
    /\ completed_classes' =
          IF completed THEN Append(completed_classes, ClassName) ELSE completed_classes
    /\ pc' = "main"
    /\ hist' = [hist EXCEPT !.outcome[Len(hist.outcome)] = "returned",
                            !.returned = Append(@, [class |-> ClassName,
                                                    value |-> completed,
                                                    activity |-> hist.activity,
                                                    at |-> now])]
    /\ UNCHANGED <<call, args, run, now, ci, modules, mi, completed, si, li, ti, hi,
                   resources_to_get, last_update, cwd, dirs, files>>

(***************************************************************************)
(* download_lectures: the loop over the sections of one module.            *)
(***************************************************************************)
SectionKey == <<ci, mi, si + 1>>

\* "if section_filter and not re.search(section_filter, section): continue"
SkipSection ==
    /\ pc = "section"
    /\ si < Len(Sections)
    /\ FilteredOut(args.section_filter, Sections[si + 1][1])
    /\ si' = si + 1
    /\ hist' = [hist EXCEPT !.skipped = @ \cup {SectionKey}]
    /\ UNCHANGED <<call, args, run, now, pc, ci, modules, mi, completed, completed_classes,
                   li, ti, hi, resources_to_get, last_update, cwd, dirs, files>>

EnterSection ==
    /\ pc = "section"
    /\ si < Len(Sections)
    /\ ~FilteredOut(args.section_filter, Sections[si + 1][1])
    /\ si' = si + 1
    /\ li' = 0
    /\ pc' = "lecture"
    /\ hist' = [hist EXCEPT !.entered = @ \cup {SectionKey}]
    /\ UNCHANGED <<call, args, run, now, ci, modules, mi, completed, completed_classes, ti,
                   hi, resources_to_get, last_update, cwd, dirs, files>>

\* rv = is_course_complete(last_update); return rv, and in
\* download_on_demand_class: completed = completed and result
FinishModule ==
    /\ pc = "section"
    /\ si = Len(Sections)
    /\ completed' = (completed /\ IsCourseComplete(last_update, now))
    /\ pc' = "class"
    /\ UNCHANGED <<call, args, run, now, ci, modules, mi, completed_classes, si, li, ti, hi,
                   resources_to_get, last_update, cwd, dirs, files, hist>>

(***************************************************************************)
(* download_lectures: the loop over the lectures of one section.           *)
(***************************************************************************)
SkipLecture ==
    /\ pc = "lecture"
    /\ li < Len(Lectures)
    /\ FilteredOut(args.lecture_filter, Lectures[li + 1][1])
    /\ li' = li + 1
    /\ UNCHANGED <<call, args, run, now, pc, ci, modules, mi, completed, completed_classes,
                   si, ti, hi, resources_to_get, last_update, cwd, dirs, files, hist>>

\* "if not os.path.exists(sec): mkdir_p(sec)", then find_resources_to_get
EnterLecture ==
    /\ pc = "lecture"
    /\ li < Len(Lectures)
    /\ ~FilteredOut(args.lecture_filter, Lectures[li + 1][1])
    /\ li' = li + 1
    /\ dirs' = IF Exists(Sec) THEN dirs ELSE MkdirP(dirs, Resolve(Sec, cwd))
    /\ resources_to_get' = FindResourcesToGet(Lectures[li + 1][2], args.file_formats,
                                              args.resource_filter, args.ignore_formats)
    /\ ti' = 0
    /\ pc' = "target"
    /\ hist' = [hist EXCEPT !.made = @ \cup (dirs' \ dirs),
                            !.touched = @ \cup {<<ci, mi, si>>}]
    /\ UNCHANGED <<call, args, run, now, ci, modules, mi, completed, completed_classes, si,
                   hi, last_update, cwd, files>>

\* mkdir_p raises OSError
MkdirFails ==
    /\ pc = "lecture"
    /\ li < Len(Lectures)
    /\ ~FilteredOut(args.lecture_filter, Lectures[li + 1][1])
    /\ ~Exists(Sec)
    /\ CanFail
    /\ li' = li + 1
    /\ Raised("OSError", [Failed(hist) EXCEPT !.touched = @ \cup {<<ci, mi, si>>}])
    /\ UNCHANGED <<call, args, run, now, ci, modules, mi, completed, completed_classes, si,
                   ti, hi, resources_to_get, last_update, cwd, dirs, files>>

\* the loop is over: the playlist block follows, then the hooks
LecturesDone ==
    /\ pc = "lecture"
    /\ li = Len(Lectures)
    /\ pc' = "playlist"
    /\ UNCHANGED <<call, args, run, now, ci, modules, mi, completed, completed_classes, si,
                   li, ti, hi, resources_to_get, last_update, cwd, dirs, files, hist>>

(***************************************************************************)
(* download_lectures: the loop over resources_to_get.                      *)
(***************************************************************************)
Target == resources_to_get[ti + 1]

\* lecfn
LecFn == Join(Sec, LecFileName(Target))

LecAbs == Resolve(LecFn, cwd)

FileBefore == IF LecAbs \in DOMAIN files THEN <<files[LecAbs]>> ELSE <<>>

WriteGuard ==
    /\ pc = "target"
    /\ ti < Len(resources_to_get)
    /\ ShouldWrite(args.overwrite, Exists(LecFn), args.resume)

\* what a target step records
Step(wrote, dl, update) ==
    [path |-> LecAbs, existed |-> Exists(LecFn), wrote |-> wrote, dl |-> dl,
     before |-> FileBefore, update |-> update]

\* downloader.download(url, lecfn, resume=resume) succeeds
DownloadTarget ==
    /\ WriteGuard
    /\ ~args.skip_download
    /\ ti' = ti + 1
    /\ now' = now + 1
    /\ files' = (LecAbs :> [mtime |-> now', content |-> Target[2], fmt |-> Target[1]])
                    @@ files
    /\ last_update' = now'
    /\ hist' = [hist EXCEPT !.last = Step(TRUE, "success", now'),
                            !.writes = @ + 1,
                            !.written = @ \cup {LecAbs},
                            !.activity = Max2(@, now'),
                            !.touched = @ \cup {<<ci, mi, si>>}]
    /\ UNCHANGED <<call, args, run, pc, ci, modules, mi, completed, completed_classes, si,
                   li, hi, resources_to_get, cwd, dirs>>

\* downloader.download reports failure: the call returns, nothing was transferred
DownloadReportsFailure ==
    /\ WriteGuard
    /\ ~args.skip_download
    /\ CanFail
    /\ ti' = ti + 1
    /\ now' = now + 1
    /\ last_update' = now'
    /\ hist' = [Failed(hist) EXCEPT !.last = Step(TRUE, "failure", now'),
                            !.writes = @ + 1,
                            !.swallowed = TRUE,
                            !.activity = Max2(@, now'),
                            !.touched = @ \cup {<<ci, mi, si>>}]
    /\ UNCHANGED <<call, args, run, pc, ci, modules, mi, completed, completed_classes, si,
                   li, hi, resources_to_get, cwd, dirs, files>>

\* downloader.download raises
DownloadRaises ==
    /\ WriteGuard
    /\ ~args.skip_download
    /\ CanFail
    /\ ti' = ti + 1
    /\ \E e \in {"HTTPError", "OSError"} :
          Raised(e, [Failed(hist) EXCEPT !.last = Step(TRUE, e, last_update),
                                 !.writes = @ + 1,
                                 !.touched = @ \cup {<<ci, mi, si>>}])
    /\ UNCHANGED <<call, args, run, now, ci, modules, mi, completed, completed_classes, si,
                   li, hi, resources_to_get, last_update, cwd, dirs, files>>

\* open(lecfn, 'w').close()
TouchTarget ==
    /\ WriteGuard
    /\ args.skip_download
    /\ ti' = ti + 1
    /\ now' = now + 1
    /\ files' = (LecAbs :> [mtime |-> now', content |-> "", fmt |-> Target[1]]) @@ files
    /\ last_update' = now'
    /\ hist' = [hist EXCEPT !.last = Step(TRUE, "none", now'),
                            !.writes = @ + 1,
                            !.written = @ \cup {LecAbs},
                            !.activity = Max2(@, now'),
                            !.touched = @ \cup {<<ci, mi, si>>}]
    /\ UNCHANGED <<call, args, run, pc, ci, modules, mi, completed, completed_classes, si,
                   li, hi, resources_to_get, cwd, dirs>>

\* open raises
TouchFails ==
    /\ WriteGuard
    /\ args.skip_download
    /\ CanFail
    /\ ti' = ti + 1
    /\ Raised("OSError", [Failed(hist) EXCEPT !.last = Step(TRUE, "OSError", last_update),
                                      !.writes = @ + 1,
                                      !.touched = @ \cup {<<ci, mi, si>>}])
    /\ UNCHANGED <<call, args, run, now, ci, modules, mi, completed, completed_classes, si,
                   li, hi, resources_to_get, last_update, cwd, dirs, files>>

\* "last_update = max(last_update, os.path.getmtime(lecfn))"
SkipExisting ==
    /\ pc = "target"
    /\ ti < Len(resources_to_get)
    /\ ~ShouldWrite(args.overwrite, Exists(LecFn), args.resume)
    /\ ti' = ti + 1
    /\ last_update' = Max2(last_update, files[LecAbs].mtime)
    /\ hist' = [hist EXCEPT !.last = Step(FALSE, "none", last_update'),
                            !.activity = Max2(@, files[LecAbs].mtime),
                            !.touched = @ \cup {<<ci, mi, si>>}]
    /\ UNCHANGED <<call, args, run, now, pc, ci, modules, mi, completed, completed_classes,
                   si, li, hi, resources_to_get, cwd, dirs, files>>

TargetsDone ==
    /\ pc = "target"
    /\ ti = Len(resources_to_get)
    /\ pc' = "lecture"
    /\ UNCHANGED <<call, args, run, now, ci, modules, mi, completed, completed_classes, si,
                   li, ti, hi, resources_to_get, last_update, cwd, dirs, files, hist>>

(***************************************************************************)
(* download_lectures: the playlist block.  os.walk lists a directory, then *)
(* yields it, then walks its subdirectories by their joined paths; a       *)
(* directory it cannot list is passed over.  The loop body changes the     *)
(* working directory and changes it back only after writing a playlist.    *)
(***************************************************************************)
RECURSIVE SetToSeq(_)
SetToSeq(S) ==
    IF S = {} THEN <<>>
    ELSE LET x == CHOOSE y \in S : TRUE IN <<x>> \o SetToSeq(S \ {x})

\* the names of the subdirectories of directory d
SubdirNames(d) == {Last(q) : q \in {r \in dirs : Len(r) = Len(d) + 1 /\ SubSeq(r, 1, Len(d)) = d}}

\* glob.glob("*.mp4") in directory d
GlobMp4(fs, d) ==
    {Last(q) : q \in {r \in DOMAIN fs : /\ Len(r) = Len(d) + 1
                                        /\ SubSeq(r, 1, Len(d)) = d
                                        /\ fs[r].fmt = "mp4"}}

\* one pass of the body of "for (_path, subdirs, files) in os.walk(sec)"
WalkBody(here, st, path_to_return) ==
    LET globbed_videos == GlobMp4(st.files, here)
        m3u_name == Last(here) \o ".m3u"
    IN  IF globbed_videos # {}
        THEN [cwd |-> path_to_return,
              files |-> (Append(here, m3u_name) :>
                            [mtime |-> now, content |-> globbed_videos, fmt |-> "m3u"])
                        @@ st.files]
        ELSE [cwd |-> here, files |-> st.files]

RECURSIVE Walk(_, _, _)
RECURSIVE WalkEach(_, _, _, _)
Walk(top, st, path_to_return) ==
    LET here == Resolve(top, st.cwd)
    IN  IF here \notin dirs THEN st
        ELSE WalkEach(top, SetToSeq(SubdirNames(here)),
                      WalkBody(here, st, path_to_return), path_to_return)

WalkEach(top, names, st, path_to_return) ==
    IF names = <<>> THEN st
    ELSE WalkEach(top, Tail(names), Walk(Join(top, Head(names)), st, path_to_return),
                  path_to_return)

\* "if playlist:" and the walk
Playlist ==
    /\ pc = "playlist"
    /\ LET st == IF args.playlist
                 THEN Walk(Sec, [cwd |-> cwd, files |-> files], cwd)
                 ELSE [cwd |-> cwd, files |-> files]
       IN  /\ cwd' = st.cwd
           /\ files' = st.files
    /\ hi' = 0
    /\ pc' = "hooks"
    /\ hist' = IF args.playlist
               THEN [hist EXCEPT !.touched = @ \cup {<<ci, mi, si>>}]
               ELSE hist
    /\ UNCHANGED <<call, args, run, now, ci, modules, mi, completed, completed_classes, si,
                   li, ti, resources_to_get, last_update, dirs>>

(***************************************************************************)
(* download_lectures: the hooks.  os.chdir(sec), then subprocess.call,     *)
(* whose return value, the exit status of the hook, is dropped.            *)
(***************************************************************************)
RunHook ==
    /\ pc = "hooks"
    /\ hi < Len(args.hooks)
    /\ Resolve(Sec, cwd) \in dirs
    /\ cwd' = Resolve(Sec, cwd)
    /\ hi' = hi + 1
    /\ \E status \in {0, 1} :
          IF status = 0
          THEN hist' = [hist EXCEPT !.touched = @ \cup {<<ci, mi, si>>}]
          ELSE /\ CanFail
               /\ hist' = [Failed(hist) EXCEPT !.touched = @ \cup {<<ci, mi, si>>},
                                               !.hookFailed = @ \cup {ci}]
    /\ UNCHANGED <<call, args, run, now, pc, ci, modules, mi, completed, completed_classes,
                   si, li, ti, resources_to_get, last_update, dirs, files>>

\* os.chdir raises OSError: sec is no directory under the working directory
HookChdirFails ==
    /\ pc = "hooks"
    /\ hi < Len(args.hooks)
    /\ Resolve(Sec, cwd) \notin dirs
    /\ hi' = hi + 1
    /\ Raised("OSError", [hist EXCEPT !.touched = @ \cup {<<ci, mi, si>>},
                                      !.hookFailed = @ \cup {ci}])
    /\ UNCHANGED <<call, args, run, now, ci, modules, mi, completed, completed_classes, si,
                   li, ti, resources_to_get, last_update, cwd, dirs, files>>

\* subprocess.call raises OSError: the hook cannot be started
HookCannotStart ==
    /\ pc = "hooks"
    /\ hi < Len(args.hooks)
    /\ Resolve(Sec, cwd) \in dirs
    /\ CanFail
    /\ cwd' = Resolve(Sec, cwd)
    /\ hi' = hi + 1
    /\ Raised("OSError", [Failed(hist) EXCEPT !.touched = @ \cup {<<ci, mi, si>>},
                                              !.hookFailed = @ \cup {ci}])
    /\ UNCHANGED <<call, args, run, now, ci, modules, mi, completed, completed_classes, si,
                   li, ti, resources_to_get, last_update, dirs, files>>

HooksDone ==
    /\ pc = "hooks"
    /\ hi = Len(args.hooks)
    /\ pc' = "section"
    /\ UNCHANGED <<call, args, run, now, ci, modules, mi, completed, completed_classes, si,
                   li, ti, hi, resources_to_get, last_update, cwd, dirs, files, hist>>

(***************************************************************************)
(* After main has returned, the program is started again thirty days later *)
(* with the same options, in the directory it was started in before.       *)
(***************************************************************************)
Rerun ==
    /\ pc = "done"
    /\ run < MaxRuns
    /\ run' = run + 1
    /\ now' = now + TotalSeconds(DAYS, 0, 0)
    /\ pc' = "main"
    /\ ci' = 0
    /\ completed_classes' = <<>>
    /\ cwd' = StartDir
    /\ hist' = [NewHist EXCEPT
                   !.failures = hist.failures,
                   !.prevReturned = \A i \in 1..Len(hist.outcome) :
                                        hist.outcome[i] = "returned",
                   !.prevClean = /\ ~hist.swallowed
                                 /\ \A i \in 1..Len(hist.outcome) :
                                        hist.outcome[i] = "returned",
                   !.prevTree = <<Tree>>]
    /\ UNCHANGED <<call, args, modules, mi, completed, si, li, ti, hi, resources_to_get,
                   last_update, dirs, files>>

Next ==
    \/ StartClass
    \/ StartClassFails
    \/ MainDone
    \/ BeginModule
    \/ FinishClass
    \/ SkipSection
    \/ EnterSection
    \/ FinishModule
    \/ SkipLecture
    \/ EnterLecture
    \/ MkdirFails
    \/ LecturesDone
    \/ DownloadTarget
    \/ DownloadReportsFailure
    \/ DownloadRaises
    \/ TouchTarget
    \/ TouchFails
    \/ SkipExisting
    \/ TargetsDone
    \/ Playlist
    \/ RunHook
    \/ HookChdirFails
    \/ HookCannotStart
    \/ HooksDone
    \/ Rerun

Spec == Init /\ [][Next]_vars

(***************************************************************************)
(* Properties of the download loop, checked under Spec.                    *)
(***************************************************************************)
\* the section indices <<class index, module index, section index>> of the
\* requested classes
AllSections ==
    {k \in (1..Len(args.class_names)) \X (1..2) \X (1..2) :
        /\ k[2] <= Len(Syllabus(args.class_names[k[1]]))
        /\ k[3] <= Len(Syllabus(args.class_names[k[1]])[k[2]][2])}

SlugOf(k) == Syllabus(args.class_names[k[1]])[k[2]][2][k[3]][1]

\* the path of the section directory as the options and the syllabus give it
LayoutSec(k) == SecOf(args.class_names[k[1]], Syllabus(args.class_names[k[1]]), k[2], k[3])

\* C1: a target step performs a write (a download call or a placeholder) if and
\* only if the file was absent at that moment, or overwrite is set, or resume is
\* set; when none holds no write is performed and the file is as it was.
C1_WriteIffAbsentOrOverwriteOrResume ==
    hist.last.path # <<>> =>
        /\ hist.last.wrote <=> (~hist.last.existed \/ args.overwrite \/ args.resume)
        /\ ~hist.last.wrote =>
              /\ hist.last.path \in DOMAIN files
              /\ <<files[hist.last.path]>> = hist.last.before

\* a target whose file exists is passed over, the file kept
C1_Witness ==
    /\ hist.last.path # <<>>
    /\ hist.last.existed
    /\ ~hist.last.wrote
    /\ hist.last.before # <<>>

C3_ReturnsEstimateOfMaximum ==
    \A i \in 1..Len(hist.returned) :
        hist.returned[i].value =
            IsCourseComplete(hist.returned[i].activity, hist.returned[i].at)

CaughtKinds == {"HTTPError", "AuthenticationFailed", "ClassNotFound"}

\* C4: when a class fails with HTTPError, AuthenticationFailed or ClassNotFound
\* only that class is aborted: the loop goes on, the classes are attempted in
\* the order requested, and the failed class is not among the completed ones.
C4_CaughtErrorAbortsOnlyThatClass ==
    /\ \A i \in 1..Len(hist.attempted) : hist.attempted[i] = args.class_names[i]
    /\ \A i \in 1..Len(hist.outcome) :
          hist.outcome[i] \in CaughtKinds =>
              /\ hist.attempted[i] \notin Range(completed_classes)
              /\ i = Len(hist.outcome) => pc \in {"main", "done"}
              /\ pc = "done" => Len(hist.attempted) = Len(args.class_names)

\* a class failed with ClassNotFound and the class after it ran to its end
C4_Witness ==
    /\ pc = "done"
    /\ Len(hist.outcome) = 2
    /\ hist.outcome[1] = "ClassNotFound"
    /\ hist.outcome[2] = "returned"

\* C5: whatever fails while a class is processed, every other requested class
\* is still attempted: when the process ends, every class has been attempted.
C5_AnyFailureAbortsOnlyThatClass ==
    pc \in {"done", "crashed"} => hist.attempted = args.class_names

\* C6: when the downloader fails for a target the run of that class fails: it
\* goes on to no further target and does not record the target as latest
\* activity.
C6_DownloadFailurePropagates ==
    hist.last.dl \in {"failure", "HTTPError", "OSError"} =>
        /\ hist.outcome[Len(hist.outcome)] \notin {"running", "returned"}
        /\ hist.last.update # now

\* C7: a section whose slug the section filter does not match is skipped
\* entirely: no directory of its path exists, no target of it is written or
\* counted, no playlist or hook runs for it; a section that matches is entered.
C7_FilteredSectionSkipped ==
    \A k \in AllSections :
        IF args.section_filter # "" /\ SlugOf(k) \notin Found(args.section_filter)
        THEN /\ k \notin hist.touched
             /\ k \notin hist.entered
             /\ \A d \in dirs :
                   Len(d) >= Len(LayoutSec(k).comps) =>
                       SubSeq(d, Len(d) - Len(LayoutSec(k).comps) + 1, Len(d))
                           # LayoutSec(k).comps
        ELSE (pc = "done" /\ hist.outcome[k[1]] = "returned") => k \in hist.entered

\* a run with a section filter has ended, one section skipped, another entered
\* and written to
C7_Witness ==
    /\ pc = "done"
    /\ args.section_filter # ""
    /\ args.playlist
    /\ hist.skipped # {}
    /\ hist.touched # {}
    /\ hist.written # {}

\* the section directories of the layout, resolved against the directory the
\* process was started in
LayoutSecDirs == {Resolve(LayoutSec(k), StartDir) : k \in AllSections}

\* C8: every directory created and every resource file written lies at
\* outputPath/class/NN_module/section-directory(/file), resolved against the
\* working directory the process had when it started.
C8_LayoutInvariant ==
    /\ \A d \in hist.made : \E sec \in LayoutSecDirs : d \in Prefixes(sec)
    /\ \A f \in hist.written : SubSeq(f, 1, Len(f) - 1) \in LayoutSecDirs

\* upper() of the course identifiers
UpperCourse ==
    [c \in Courses |-> CASE c = "ml" -> "ML" [] c = "algo" -> "ALGO" [] c = "empty" -> "EMPTY"]

\* C14: the name of the section directory is the 2-digit section ordinal, "_"
\* and the section slug, prefixed with the uppercased course identifier and "_"
\* when verbose_dirs is on and with nothing when it is off.  Stated of the
\* directory that exists once a lecture of the section has been entered.
C14_SectionDirectoryName ==
    pc = "target" =>
        /\ Resolve(Sec, cwd) \in dirs
        /\ Last(Resolve(Sec, cwd)) =
              IF args.verbose_dirs
              THEN UpperCourse[ClassName] \o "_" \o Pad2(si) \o "_" \o Section[1]
              ELSE Pad2(si) \o "_" \o Section[1]

\* C15: a hook that fails (a non-zero exit status, a program that cannot be
\* started, a working directory that cannot be entered) is never fatal: the
\* class it ran for goes on and returns its result.
C15_HookFailureNeverFatal ==
    \A i \in hist.hookFailed :
        /\ hist.outcome[i] \in {"running", "returned"}
        /\ (i = Len(hist.outcome) /\ hist.outcome[i] = "running") => pc # "crashed"

LoopIdle ==
    /\ args = CHOOSE a \in AllArgs : OptionCount(a) = 0 /\ Len(a.class_names) = 1
    /\ run = 1
    /\ now = 2 * TotalSeconds(DAYS, 0, 0)
    /\ pc = "call"
    /\ ci = 0
    /\ modules = <<>>
    /\ mi = 0
    /\ completed = TRUE
    /\ completed_classes = <<>>
    /\ si = 0
    /\ li = 0
    /\ ti = 0
    /\ hi = 0
    /\ resources_to_get = <<>>
    /\ last_update = NoUpdate
    /\ cwd = StartDir
    /\ dirs = InitDirs
    /\ files = <<>>
    /\ hist = NewHist

loop == <<args, run, now, pc, ci, modules, mi, completed, completed_classes, si, li, ti,
          hi, resources_to_get, last_update, cwd, dirs, files, hist>>

SmallSubsets(S, n) == {T \in SUBSET S : Cardinality(T) <= n}

\* the resources the model files under a key
ResourcesOf(key) ==
    IF key = <<"pdf">> THEN << <<"u1", "Slides">>, <<"u2", "Notes">>, <<"u3", "">> >>
    ELSE << <<JoinDot(key), "">> >>

\* lectures of up to MaxKeys keys; a key with a language prefix is
\* language + '.' + extension, as get_on_demand_video_url builds it
SelectorLectures ==
    {[i \in 1..Len(q) |-> <<q[i], ResourcesOf(q[i])>>] :
        q \in {r \in DistinctSeqs({<<"mp4">>, <<"pdf">>, <<"en", "srt">>, <<"en", "txt">>},
                                  MaxKeys) : r # <<>> /\ NoRepeat(r)}}

InitSelector ==
    /\ LoopIdle
    /\ call \in [fn : {"find_resources_to_get"},
                 lecture : SelectorLectures,
                 file_formats : SmallSubsets({"all", "mp4", "srt", "txt"}, MaxFormats),
                 resource_filter : {"", "^Slides"},
                 ignored_formats : SmallSubsets({"mp4", "srt", "txt"}, MaxFormats),
                 done : {FALSE},
                 result : {<<>>}]

CallSelector ==
    /\ call.fn = "find_resources_to_get"
    /\ ~call.done
    /\ call' = [call EXCEPT
                   !.done = TRUE,
                   !.result = FindResourcesToGet(call.lecture, call.file_formats,
                                                 call.resource_filter,
                                                 call.ignored_formats)]
    /\ UNCHANGED loop

NextSelector == CallSelector

SpecSelector == InitSelector /\ [][NextSelector]_vars

\* the languages of the model and the url each kind of document gives them;
\* the urls of "de" are relative
Languages == {"en", "fr", "de"}

UrlOf(kind, language) == [abs |-> language # "de", u |-> kind \o "/" \o language]

SubtitleNodes(kind) ==
    {<<>>} \cup
    {<<[i \in 1..Len(q) |-> <<q[i], UrlOf(kind, q[i])>>]>> :
        q \in {r \in DistinctSeqs(Languages, MaxLangs) : NoRepeat(r)}}

SourceLists ==
    {<<>>,
     <<[resolution |-> "540p", url |-> "v540"]>>,
     <<[resolution |-> "360p", url |-> "v360"], [resolution |-> "720p", url |-> "v720"],
       [resolution |-> "540p", url |-> "v540"]>>}

InitResolver ==
    /\ LoopIdle
    /\ call \in [fn : {"get_on_demand_video_url"},
                 dom : [sources : SourceLists,
                        subtitles : SubtitleNodes("subtitles"),
                        subtitlesTxt : SubtitleNodes("subtitlesTxt")],
                 subtitle_language : {"all"} \cup Languages,
                 resolution : {"540p", "720p"},
                 done : {FALSE},
                 result : {<<>>}]

CallResolver ==
    /\ call.fn = "get_on_demand_video_url"
    /\ ~call.done
    /\ call' = [call EXCEPT
                   !.done = TRUE,
                   !.result = GetOnDemandVideoUrl(call.dom, call.subtitle_language,
                                                  call.resolution)]
    /\ UNCHANGED loop

NextResolver == CallResolver

SpecResolver == InitResolver /\ [][NextResolver]_vars

(***************************************************************************)
(* One lecture of download_lectures: find_resources_to_get, then the file  *)
(* name of every target, for a lecture at position lecnum of section       *)
(* secnum.  The result is the sequence of [target, name].                  *)
(***************************************************************************)
\* secnum + 1 and lecnum + 1 of the model
Ordinals == {1, 3, 12}

NamerFormats == {{"all"}, {"mp4"}, {"pdf", "srt"}}

InitNamer ==
    /\ LoopIdle
    /\ call \in [fn : {"name_targets"},
                 secnum : {2, 12},
                 lecnum : Ordinals,
                 lecname : {"intro", "outro"},
                 lecture : SelectorLectures,
                 file_formats : NamerFormats,
                 combined_section_lectures_nums : BOOLEAN,
                 done : {FALSE},
                 result : {<<>>}]

CallNamer ==
    /\ call.fn = "name_targets"
    /\ ~call.done
    /\ LET resources == FindResourcesToGet(call.lecture, call.file_formats, "", {})
       IN  call' = [call EXCEPT
                       !.done = TRUE,
                       !.result = [i \in 1..Len(resources) |->
                                      [target |-> resources[i],
                                       name |-> NameTarget(
                                                   call.combined_section_lectures_nums,
                                                   call.secnum, call.lecnum, call.lecname,
                                                   resources[i])]]]
    /\ UNCHANGED loop

NextNamer == CallNamer

SpecNamer == InitNamer /\ [][NextNamer]_vars

(***************************************************************************)
(* A single call of is_course_complete(last_update) at time.time() = time. *)
(* last_update is -1, a time near the epoch, a time around thirty days     *)
(* before the call, a time just before it, or one second after it.         *)
(***************************************************************************)
EstimatorTimes == {2 * TotalSeconds(DAYS, 0, 0) + k : k \in {0, 1, 86400}}

EstimatorCalls ==
    {[time |-> t, last_update |-> u] : t \in EstimatorTimes, u \in {NoUpdate, 0, 1}}
    \cup
    {[time |-> t, last_update |-> t - TotalSeconds(DAYS, 0, 0) + k] :
        t \in EstimatorTimes, k \in (0 - MaxSkew)..MaxSkew}
    \cup
    {[time |-> t, last_update |-> t - k] : t \in EstimatorTimes, k \in (0 - 1)..MaxSkew}

InitEstimator ==
    /\ LoopIdle
    /\ \E c \in EstimatorCalls :
          call = [fn |-> "is_course_complete", time |-> c.time,
                  last_update |-> c.last_update, done |-> FALSE, result |-> FALSE]

CallEstimator ==
    /\ call.fn = "is_course_complete"
    /\ ~call.done
    /\ call' = [call EXCEPT !.done = TRUE,
                            !.result = IsCourseComplete(call.last_update, call.time)]
    /\ UNCHANGED loop

NextEstimator == CallEstimator

SpecEstimator == InitEstimator /\ [][NextEstimator]_vars

(***************************************************************************)
(* A single call of parse_on_demand_syllabus on a syllabus document of up  *)
(* to MaxModules modules.                                                  *)
(***************************************************************************)
Item(slug, typeName, videoId) == [slug |-> slug, typeName |-> typeName, videoId |-> videoId]

\* the section lists a module of the model holds: none, sections without a
\* lecture item, sections mixing lectures with other items, a lecture whose
\* video document offers no source
SectionLists ==
    {<<>>,
     <<[slug |-> "week01", elements |-> <<Item("quiz-1", "quiz", "")>>]>>,
     <<[slug |-> "week01", elements |-> <<Item("intro", "lecture", "v1")>>],
       [slug |-> "week02", elements |-> <<Item("reading", "supplement", "")>>]>>,
     <<[slug |-> "week01", elements |-> <<Item("intro", "lecture", "v1"),
                                          Item("quiz-1", "quiz", ""),
                                          Item("outro", "lecture", "v2")>>],
       [slug |-> "week02", elements |-> <<Item("notes", "lecture", "v2")>>]>>,
     <<[slug |-> "week01", elements |-> <<>>],
       [slug |-> "week02", elements |-> <<Item("notes", "lecture", "v1")>>]>>,
     <<[slug |-> "week01", elements |-> <<Item("broken", "lecture", "v0")>>]>>}

ModuleSlug(i) == "m" \o ToString(i)

SyllabusDocuments ==
    {[i \in 1..n |-> [slug |-> ModuleSlug(i), elements |-> q[i]]] :
        n \in 0..MaxModules, q \in [1..MaxModules -> SectionLists]}

InitParser ==
    /\ LoopIdle
    /\ call \in [fn : {"parse_on_demand_syllabus"},
                 dom : SyllabusDocuments,
                 reverse : BOOLEAN,
                 subtitle_language : {"en", "all"},
                 video_resolution : {"540p"},
                 done : {FALSE},
                 result : {<<>>}]

CallParser ==
    /\ call.fn = "parse_on_demand_syllabus"
    /\ ~call.done
    /\ call' = [call EXCEPT
                   !.done = TRUE,
                   !.result = ParseOnDemandSyllabus(call.dom, call.reverse,
                                                    call.subtitle_language,
                                                    call.video_resolution)]
    /\ UNCHANGED loop

NextParser == CallParser

SpecParser == InitParser /\ [][NextParser]_vars

(***************************************************************************)
(* Properties of find_resources_to_get, checked under SpecSelector.        *)
(***************************************************************************)
\* the resources of entry e of the lecture are all in the result
Selected(e) ==
    \A r \in Range(e[2]) : <<JoinDot(e[1]), r[1], r[2]>> \in Range(call.result)

\* no resource of entry e of the lecture is in the result
Dropped(e) == \A t \in Range(call.result) : t[1] # JoinDot(e[1])

\* C9 as stated: without a title filter the resources of a key with canonical
\* extension e are included if and only if (e is in F or F = {"all"}) and e is
\* not in I.
C9_Original ==
    (call.done /\ call.resource_filter = "") =>
        \A e \in Range(call.lecture) :
            IF /\ Last(e[1]) \in call.file_formats \/ call.file_formats = {"all"}
               /\ Last(e[1]) \notin call.ignored_formats
            THEN Selected(e)
            ELSE Dropped(e)

\* C9 as amended: ... if and only if (e is in F or "all" is in F) and e is not
\* in I.
C9_IncludedIffAcceptedAndNotIgnored ==
    (call.done /\ call.resource_filter = "") =>
        \A e \in Range(call.lecture) :
            IF /\ Last(e[1]) \in call.file_formats \/ "all" \in call.file_formats
               /\ Last(e[1]) \notin call.ignored_formats
            THEN Selected(e)
            ELSE Dropped(e)

\* a call with "all" beside another format, where one key is ignored and
\* another is included
C9_Witness ==
    /\ call.done
    /\ call.resource_filter = ""
    /\ "all" \in call.file_formats
    /\ call.file_formats # {"all"}
    /\ \E e \in Range(call.lecture) : Last(e[1]) \in call.ignored_formats /\ Dropped(e)
    /\ \E e \in Range(call.lecture) :
          Last(e[1]) \notin call.file_formats /\ Selected(e) /\ call.result # <<>>

(***************************************************************************)
(* Properties of get_on_demand_video_url, checked under SpecResolver.      *)
(***************************************************************************)
\* the entries of video_content whose key has this extension
Emitted(extension) ==
    {e \in Range(call.result.video_content) : Last(e[1]) = extension /\ Len(e[1]) = 2}

KindHolds(node, extension, description) ==
    LET L == call.subtitle_language
    IN  node # <<>> =>
           IF L \in Keys(node[1])
           THEN Emitted(extension) =
                    {<<<<L, extension>>, MakeCourseraAbsoluteUrl(Get(node[1], L)[1])>>}
           ELSE /\ L # "en" => <<description, L>> \in Range(call.result.warnings)
                /\ Emitted(extension) =
                      IF "en" \in Keys(node[1])
                      THEN {<<<<"en", extension>>,
                              MakeCourseraAbsoluteUrl(Get(node[1], "en")[1])>>}
                      ELSE {}

\* C10: with a language L other than "all", for each kind whose data is
\* present: if L is available exactly one resource is emitted, keyed L.<ext>
\* with L's url; if not, a warning is logged (when L is not "en" itself) and
\* only en.<ext> is emitted, when "en" is available.
C10_RequestedLanguageOrEnglish ==
    (call.done /\ call.result.raised = "" /\ call.subtitle_language # "all") =>
        /\ KindHolds(call.dom.subtitles, "srt", "subtitle")
        /\ KindHolds(call.dom.subtitlesTxt, "txt", "transcript")

(***************************************************************************)
(* Properties of the file names, checked under SpecNamer.                  *)
(***************************************************************************)
\* the key of the lecture a target was selected under, as its parts
KeyOf(target) == (CHOOSE e \in Range(call.lecture) : JoinDot(e[1]) = target[1])[1]

\* the lecture holds the keys "mp4" and "en.srt" and both were selected
BothSelected ==
    /\ {e[1] : e \in Range(call.lecture)} = {<<"mp4">>, <<"en", "srt">>}
    /\ {x.target[1] : x \in Range(call.result)} = {"mp4", "en.srt"}

\* C11 as stated: with the default scheme, a selected resource with an empty
\* title of lecture n, slug s, is named <2-digit n>_<s>.<extension>, the
\* canonical extension of its key: "03_intro.srt" for key "en.srt".
C11_Original ==
    (call.done /\ ~call.combined_section_lectures_nums) =>
        \A x \in Range(call.result) :
            x.target[3] = "" =>
                x.name = Pad2(call.lecnum) \o "_" \o call.lecname \o "."
                             \o Last(KeyOf(x.target))

\* C11 as amended: ... is named <2-digit n>_<s>.<key>, the whole resource key:
\* "03_intro.mp4" for key "mp4" and "03_intro.en.srt" for key "en.srt".
C11_NamedByOrdinalSlugAndKey ==
    (call.done /\ ~call.combined_section_lectures_nums) =>
        /\ \A x \in Range(call.result) :
              x.target[3] = "" =>
                  x.name = Pad2(call.lecnum) \o "_" \o call.lecname \o "."
                               \o JoinDot(KeyOf(x.target))
        /\ (BothSelected /\ call.lecnum = 3 /\ call.lecname = "intro") =>
              {x.name : x \in Range(call.result)} = {"03_intro.mp4", "03_intro.en.srt"}

\* lecture 3 "intro" with keys "mp4" and "en.srt" and formats "all" was named
C11_Witness ==
    /\ call.done
    /\ ~call.combined_section_lectures_nums
    /\ call.file_formats = {"all"}
    /\ call.lecnum = 3
    /\ call.lecname = "intro"
    /\ BothSelected
    /\ Len(call.result) = 2

\* C12: within one lecture, under either naming scheme, two targets whose
\* (title, extension) pairs differ are given different file names.
C12_NamesCollisionFree ==
    call.done =>
        \A i, j \in 1..Len(call.result) :
            LET a == call.result[i]
                b == call.result[j]
            IN  <<a.target[3], Last(KeyOf(a.target))>> # <<b.target[3], Last(KeyOf(b.target))>>
                    => a.name # b.name

\* a lecture was named under the combined scheme whose targets differ by title
\* under one key and by extension between two keys
C12_Witness ==
    /\ call.done
    /\ call.combined_section_lectures_nums
    /\ \E i, j \in 1..Len(call.result) :
          /\ call.result[i].target[1] = call.result[j].target[1]
          /\ call.result[i].target[3] # call.result[j].target[3]
          /\ call.result[i].target[3] # ""
          /\ call.result[j].target[3] # ""
    /\ \E i, j \in 1..Len(call.result) :
          Last(KeyOf(call.result[i].target)) # Last(KeyOf(call.result[j].target))

LectureItems(section) == SelectSeq(section.elements, LAMBDA it : it.typeName = "lecture")

SectionsWithLectures(module) ==
    SelectSeq(module.elements, LAMBDA section : LectureItems(section) # <<>>)

ModulesWithSections(dom) == SelectSeq(dom, LAMBDA module : SectionsWithLectures(module) # <<>>)

\* C17: the tree parse_on_demand_syllabus returns holds, in the order of the
\* document, exactly the modules, sections and lectures that remain when only
\* the items of type "lecture" are kept and then the empty sections and the
\* empty modules are dropped; with reverse the modules, and only they, are in
\* the opposite order.
C17_PrunedTreeInOrder ==
    (call.done /\ call.result.raised = "") =>
        LET returned == call.result.modules
            kept == ModulesWithSections(call.dom)
            \* position in the result of the module at position i of kept
            at(i) == IF call.reverse THEN Len(kept) + 1 - i ELSE i
        IN  /\ Len(returned) = Len(kept)
            /\ \A m \in Range(returned) :
                  /\ m[2] # <<>>
                  /\ \A sec \in Range(m[2]) : sec[2] # <<>>
            /\ \A i \in 1..Len(kept) :
                  LET module == returned[at(i)]
                      sections == SectionsWithLectures(kept[i])
                  IN  /\ module[1] = kept[i].slug
                      /\ Len(module[2]) = Len(sections)
                      /\ \A j \in 1..Len(sections) :
                            /\ module[2][j][1] = sections[j].slug
                            /\ [k \in 1..Len(module[2][j][2]) |-> module[2][j][2][k][1]]
                                   = [k \in 1..Len(LectureItems(sections[j])) |->
                                         LectureItems(sections[j])[k].slug]

\* a call with reverse has returned two modules or more, one of more than one
\* lecture, from a document of which an item, a section and a module were
\* dropped
C17_Witness ==
    /\ call.done
    /\ call.result.raised = ""
    /\ call.reverse
    /\ Len(call.result.modules) >= 2
    /\ call.result.modules[1][1] # call.dom[1].slug
    /\ Len(call.result.modules) < Len(call.dom)
    /\ \E m \in Range(call.result.modules) : \E sec \in Range(m[2]) : Len(sec[2]) >= 2
    /\ \E m \in Range(call.dom) :
          /\ Len(SectionsWithLectures(m)) < Len(m.elements)
          /\ SectionsWithLectures(m) # <<>>

====
